---- MODULE Spec2Model ----
(***************************************************************************)
(* Model of the inih line parser, lib/inih/ini.c: ini_parse_stream driven  *)
(* by the string reader of ini_parse_string_length.  Text is a sequence of *)
(* one-character strings; a C string is the sequence of its characters     *)
(* before the terminating NUL.  The line buffer is the fixed one of        *)
(* INI_USE_STACK, of INI_MAX_LINE bytes; the build options that change the *)
(* parse are the fields of cfg.  calls, hist, errLines, cur and rejects    *)
(* are history variables: they record what the parser did and never        *)
(* influence it, except that rejects caps the handler's zero returns.      *)
(***************************************************************************)
EXTENDS Integers, Sequences, FiniteSets, TLC

VARIABLES cfg, phys, stream, line, section, prev_name, lineno, error, pc, ret,
          cur, calls, hist, errLines, rejects

vars == <<cfg, phys, stream, line, section, prev_name, lineno, error, pc, ret,
          cur, calls, hist, errLines, rejects>>

(***************************************************************************)
(* Program constants (ini.c, ini.h).                                       *)
(***************************************************************************)
MAX_SECTION == 50
MAX_NAME == 50
INI_MAX_LINE == 200
ABYSS_SIZE == 16

INI_START_COMMENT_PREFIXES == {";", "#"}
INI_INLINE_COMMENT_PREFIXES == {";"}

\* The build options of ini.h with their default values.
DefaultCfg ==
    [ALLOW_MULTILINE |-> TRUE, ALLOW_BOM |-> TRUE,
     ALLOW_INLINE_COMMENTS |-> TRUE, STOP_ON_FIRST_ERROR |-> FALSE,
     CALL_HANDLER_ON_NEW_SECTION |-> FALSE, ALLOW_NO_VALUE |-> FALSE]

\* The NUL terminator read through a char pointer, and the NULL pointer
\* passed to the handler for a missing name or value.
NUL == "\\0"
NULL == <<"NULL">>

(***************************************************************************)
(* Bounds of the model.                                                    *)
(***************************************************************************)
MaxLines == 3
MaxLinesCfg == 2
MaxLinesLong == 2
MaxChars == 6
MaxRejects == 1

(***************************************************************************)
(* <ctype.h> and <string.h> as the parser uses them.                       *)
(***************************************************************************)
isspace(c) == c \in {" ", "\t", "\n", "\r", "\f"}

\* strchr(chars, c) != NULL; the terminator of chars matches c = NUL.
strchr(chars, c) == c = NUL \/ c \in chars

\* *(s + i - 1): the character at 1-based index i, NUL at and past the end.
CharAt(s, i) == IF i >= 1 /\ i <= Len(s) THEN s[i] ELSE NUL

Min(a, b) == IF a <= b THEN a ELSE b

Drop(s, n) == SubSeq(s, n + 1, Len(s))

(***************************************************************************)
(* The static helpers of ini.c.  Each loop over a string is given by the   *)
(* index at which it stops, so that a line of INI_MAX_LINE characters      *)
(* needs no deep recursion.                                                *)
(***************************************************************************)
\* while (end > s && isspace(*--end)) *end = '\0';
ini_rstrip(s) ==
    IF \A i \in 1..Len(s) : isspace(s[i])
    THEN <<>>
    ELSE SubSeq(s, 1, CHOOSE i \in 1..Len(s) :
                        ~isspace(s[i]) /\ \A j \in (i + 1)..Len(s) : isspace(s[j]))

\* Number of leading whitespace characters ini_lskip steps over from the
\* 1-based index i.
LSkipCount(s, i) ==
    IF \A j \in i..Len(s) : isspace(s[j])
    THEN IF i <= Len(s) THEN Len(s) - i + 1 ELSE 0
    ELSE (CHOOSE j \in i..Len(s) :
            ~isspace(s[j]) /\ \A k \in i..(j - 1) : isspace(s[k])) - i

\* A variant that skips nothing.
LSkipNothing(s) == s

ini_lskip(s) == Drop(s, LSkipCount(s, 1))

\* A variant that starts as if whitespace had just been seen.
WasSpaceInitSet == TRUE

\* int was_space = 0;
WasSpaceInit == FALSE

\* A variant that never stops at an inline comment.
FindStopsCharsOnly(s, chars, inline, i) == s[i] \in chars

\* The condition that ends the loop of ini_find_chars_or_comment at index
\* i; chars = {} stands for a NULL chars argument.
FindStops(s, chars, inline, i) ==
    \/ s[i] \in chars
    \/ /\ inline
       /\ IF i = 1 THEN WasSpaceInit ELSE isspace(s[i - 1])
       /\ s[i] \in INI_INLINE_COMMENT_PREFIXES

\* The index the returned pointer points at (Len(s) + 1 for the NUL).
ini_find_chars_or_comment(s, chars) ==
    LET inline == cfg.ALLOW_INLINE_COMMENTS
    IN  IF \A i \in 1..Len(s) : ~FindStops(s, chars, inline, i)
        THEN Len(s) + 1
        ELSE CHOOSE i \in 1..Len(s) :
               /\ FindStops(s, chars, inline, i)
               /\ \A j \in 1..(i - 1) : ~FindStops(s, chars, inline, j)

ini_strncpy0(src, size) == SubSeq(src, 1, Min(Len(src), size - 1))

(***************************************************************************)
(* ini_reader_string: the fgets equivalent over the unread input.  The     *)
(* result tells whether NULL is returned, the string stored and the input  *)
(* left unread.                                                            *)
(***************************************************************************)
\* The characters one call stores: up to and including the first "\n",
\* and at most num - 1.
ReadCount(s, num) ==
    LET lim == Min(num - 1, Len(s))
    IN  IF \A i \in 1..lim : s[i] # "\n"
        THEN lim
        ELSE CHOOSE i \in 1..lim :
               s[i] = "\n" /\ \A j \in 1..(i - 1) : s[j] # "\n"

ini_reader_string(s, num) ==
    IF Len(s) = 0 \/ num < 2
    THEN [null |-> TRUE, str |-> <<>>, rest |-> s]
    ELSE LET n == ReadCount(s, num)
         IN  [null |-> FALSE, str |-> SubSeq(s, 1, n), rest |-> Drop(s, n)]

\* The loop that discards the rest of an over-long line through abyss:
\* the input left, and whether any read succeeded.
RECURSIVE DiscardLoop(_, _)
DiscardLoop(s, any) ==
    LET r == ini_reader_string(s, ABYSS_SIZE)
    IN  IF r.null
        THEN [rest |-> s, any |-> any]
        ELSE IF r.str[Len(r.str)] = "\n"
             THEN [rest |-> r.rest, any |-> TRUE]
             ELSE DiscardLoop(r.rest, TRUE)

\* A variant that reads into abyss once instead of up to the line's end.
DiscardOnce(s) ==
    LET r == ini_reader_string(s, ABYSS_SIZE)
    IN  [rest |-> r.rest, any |-> ~r.null]

Discard(s) == DiscardLoop(s, FALSE)

\* offset == max_line - 1 && line[offset - 1] != '\n'
LineExceeded(str) ==
    Len(str) = INI_MAX_LINE - 1 /\ str[Len(str)] # "\n"

(***************************************************************************)
(* Lines 173-181: BOM skip on line 1, then strip both ends.  off is        *)
(* start - line, str the stripped text.                                    *)
(***************************************************************************)
BomSkip(l, n) ==
    IF cfg.ALLOW_BOM /\ n = 1 /\ CharAt(l, 1) = "EF" /\ CharAt(l, 2) = "BB"
       /\ CharAt(l, 3) = "BF"
    THEN 3 ELSE 0

StartOf(l, n) ==
    LET b == BomSkip(l, n)
        k == LSkipCount(l, b + 1)
    IN  [off |-> b + k, str |-> ini_rstrip(Drop(l, b + k))]

start == StartOf(line, lineno)

(***************************************************************************)
(* The classification of the stripped line, lines 183-251.                 *)
(***************************************************************************)
IsComment == strchr(INI_START_COMMENT_PREFIXES, CharAt(start.str, 1))

\* A variant that takes every indented line as a continuation.
HasPrevNameAlways(p) == TRUE

\* *prev_name
HasPrevName(p) == p # <<>>

IsContinuation ==
    /\ ~IsComment
    /\ cfg.ALLOW_MULTILINE
    /\ HasPrevName(prev_name) /\ start.str # <<>> /\ start.off > 0

IsSection == ~IsComment /\ ~IsContinuation /\ CharAt(start.str, 1) = "["

IsNameValue ==
    ~IsComment /\ ~IsContinuation /\ ~IsSection /\ start.str # <<>>

(***************************************************************************)
(* Ghost bookkeeping: the handler calls made, one record per line          *)
(* processed, and the physical lines on which an error condition arose.    *)
(***************************************************************************)
Call(s, n, v) == [line |-> cur, section |-> s, name |-> n, value |-> v]

Seen(kind) == [buf |-> line, kind |-> kind, lead |-> start.off > 0]

Newlines(s) == Cardinality({i \in 1..Len(s) : s[i] = "\n"})

RECURSIVE Flatten(_)
Flatten(ls) == IF ls = <<>> THEN <<>> ELSE Head(ls) \o Flatten(Tail(ls))

\* The handler's return value: any, with at most MaxRejects zero returns.
HandlerResults == IF rejects < MaxRejects THEN {TRUE, FALSE} ELSE {TRUE}

\* A variant that drops the !error guard.
SetErrorUnguarded(err, n) == n

\* if (!error) error = lineno;
SetError(err, n) == IF err = 0 THEN n ELSE err

\* A variant that breaks on an error in every build.
StopOnAnyError(err) == err # 0

\* Lines 253-256.
StopNow(err) == cfg.STOP_ON_FIRST_ERROR /\ err # 0

\* A variant that calls the handler on new sections in every build.
CallOnNewSectionAlways == TRUE

\* #if INI_CALL_HANDLER_ON_NEW_SECTION, line 208.
CallOnNewSection == cfg.CALL_HANDLER_ON_NEW_SECTION

\* The end of a loop iteration: break on error when configured, else loop.
EndOfLine(err) ==
    /\ error' = err
    /\ IF StopNow(err)
       THEN pc' = "done" /\ ret' = err
       ELSE pc' = "read" /\ ret' = ret

(***************************************************************************)
(* Actions.                                                                *)
(***************************************************************************)
\* Lines 139-171: read a line, count it, discard the rest if it is too long.
ReadLine ==
    /\ pc = "read"
    /\ ~ini_reader_string(stream, INI_MAX_LINE).null
    /\ LET r == ini_reader_string(stream, INI_MAX_LINE)
           d == IF LineExceeded(r.str) THEN Discard(r.rest)
                ELSE [rest |-> r.rest, any |-> FALSE]
           p == 1 + Newlines(Flatten(phys)) - Newlines(stream)
       IN  /\ line' = r.str
           /\ lineno' = lineno + 1
           /\ stream' = d.rest
           /\ error' = IF d.any THEN SetError(error, lineno + 1) ELSE error
           /\ cur' = p
           /\ errLines' = IF d.any THEN errLines \cup {p} ELSE errLines
    /\ pc' = "classify"
    /\ UNCHANGED <<cfg, phys, section, prev_name, ret, calls, hist, rejects>>

\* Line 139: the reader returns NULL; line 263: return error.
EndOfInput ==
    /\ pc = "read"
    /\ ini_reader_string(stream, INI_MAX_LINE).null
    /\ pc' = "done"
    /\ ret' = error
    /\ UNCHANGED <<cfg, phys, stream, line, section, prev_name, lineno, error,
                   cur, calls, hist, errLines, rejects>>

\* Lines 183-185: a start-of-line comment or an empty line.
CommentLine ==
    /\ pc = "classify"
    /\ IsComment
    /\ hist' = Append(hist, Seen(IF start.str = <<>> THEN "blank" ELSE "comment"))
    /\ EndOfLine(error)
    /\ UNCHANGED <<cfg, phys, stream, line, section, prev_name, lineno,
                   cur, calls, errLines, rejects>>

\* Lines 187-197: a continuation of the previous name's value.
ContinuationLine ==
    /\ pc = "classify"
    /\ IsContinuation
    /\ \E ok \in HandlerResults :
         LET end == IF cfg.ALLOW_INLINE_COMMENTS
                    THEN ini_find_chars_or_comment(start.str, {})
                    ELSE Len(start.str) + 1
             value == ini_rstrip(SubSeq(start.str, 1, end - 1))
         IN  /\ calls' = Append(calls, Call(section, prev_name, value))
             /\ rejects' = IF ok THEN rejects ELSE rejects + 1
             /\ errLines' = IF ok THEN errLines ELSE errLines \cup {cur}
             /\ EndOfLine(IF ok THEN error ELSE SetError(error, lineno))
    /\ hist' = Append(hist, Seen("continuation"))
    /\ UNCHANGED <<cfg, phys, stream, line, section, prev_name, lineno, cur>>

\* Lines 199-217: a "[section]" line.
SectionLine ==
    /\ pc = "classify"
    /\ IsSection
    /\ LET s == Drop(start.str, 1)
           end == ini_find_chars_or_comment(s, {"]"})
       IN  IF CharAt(s, end) = "]"
           THEN LET sec == ini_strncpy0(SubSeq(s, 1, end - 1), MAX_SECTION)
                IN  /\ section' = sec
                    /\ prev_name' = <<>>
                    /\ hist' = Append(hist, Seen("section"))
                    /\ IF CallOnNewSection
                       THEN \E ok \in HandlerResults :
                              /\ calls' = Append(calls, Call(sec, NULL, NULL))
                              /\ rejects' = IF ok THEN rejects ELSE rejects + 1
                              /\ errLines' = IF ok THEN errLines
                                             ELSE errLines \cup {cur}
                              /\ EndOfLine(IF ok THEN error
                                           ELSE SetError(error, lineno))
                       ELSE /\ EndOfLine(error)
                            /\ UNCHANGED <<calls, rejects, errLines>>
           ELSE /\ hist' = Append(hist, Seen("badsection"))
                /\ errLines' = errLines \cup {cur}
                /\ EndOfLine(SetError(error, lineno))
                /\ UNCHANGED <<section, prev_name, calls, rejects>>
    /\ UNCHANGED <<cfg, phys, stream, line, lineno, cur>>

\* Lines 218-238: a name[=:]value pair.
NameValueLine ==
    /\ pc = "classify"
    /\ IsNameValue
    /\ LET end == ini_find_chars_or_comment(start.str, {"=", ":"})
       IN  /\ CharAt(start.str, end) \in {"=", ":"}
           /\ \E ok \in HandlerResults :
                LET name == ini_rstrip(SubSeq(start.str, 1, end - 1))
                    v0 == Drop(start.str, end)
                    vend == IF cfg.ALLOW_INLINE_COMMENTS
                            THEN ini_find_chars_or_comment(v0, {})
                            ELSE Len(v0) + 1
                    value == ini_rstrip(ini_lskip(SubSeq(v0, 1, vend - 1)))
                IN  /\ prev_name' = IF cfg.ALLOW_MULTILINE
                                    THEN ini_strncpy0(name, MAX_NAME)
                                    ELSE prev_name
                    /\ calls' = Append(calls, Call(section, name, value))
                    /\ rejects' = IF ok THEN rejects ELSE rejects + 1
                    /\ errLines' = IF ok THEN errLines ELSE errLines \cup {cur}
                    /\ EndOfLine(IF ok THEN error ELSE SetError(error, lineno))
    /\ hist' = Append(hist, Seen("namevalue"))
    /\ UNCHANGED <<cfg, phys, stream, line, section, lineno, cur>>

\* Lines 239-250: no '=' or ':' on the line.
NoSeparatorLine ==
    /\ pc = "classify"
    /\ IsNameValue
    /\ LET end == ini_find_chars_or_comment(start.str, {"=", ":"})
       IN  /\ ~(CharAt(start.str, end) \in {"=", ":"})
           /\ IF cfg.ALLOW_NO_VALUE
              THEN \E ok \in HandlerResults :
                     LET name == ini_rstrip(SubSeq(start.str, 1, end - 1))
                     IN  /\ calls' = Append(calls, Call(section, name, NULL))
                         /\ rejects' = IF ok THEN rejects ELSE rejects + 1
                         /\ errLines' = IF ok THEN errLines
                                        ELSE errLines \cup {cur}
                         /\ EndOfLine(IF ok THEN error
                                      ELSE SetError(error, lineno))
                         /\ hist' = Append(hist, Seen("nameonly"))
              ELSE /\ errLines' = errLines \cup {cur}
                   /\ EndOfLine(SetError(error, lineno))
                   /\ hist' = Append(hist, Seen("noseparator"))
                   /\ UNCHANGED <<calls, rejects>>
    /\ UNCHANGED <<cfg, phys, stream, line, section, prev_name, lineno, cur>>

Next ==
    \/ ReadLine
    \/ EndOfInput
    \/ CommentLine
    \/ ContinuationLine
    \/ SectionLine
    \/ NameValueLine
    \/ NoSeparatorLine

(***************************************************************************)
(* Inputs.                                                                 *)
(***************************************************************************)
Rep(c, n) == [i \in 1..n |-> c]

\* Short lines, without their terminator.
Lines ==
    { <<"a", "=", "b">>,
      <<" ", "a", " ", "=", " ", "b", " ">>,
      <<"=", "b">>,
      <<"[", "s", "]">>,
      <<"[", "s">>,
      <<"[", "s", " ", ";", "x", "]">>,
      <<"[">> \o Rep("t", MAX_SECTION) \o <<"]">>,
      <<" ", "[", "t", "]">>,
      <<"c">>,
      <<" ", "c">>,
      <<";", "c">>,
      <<>>,
      <<"EF", "BB", "BF", "a", "=", "b">> }

\* Lines for the runs that vary the build options.
CfgLines ==
    { <<"a", "=", "b">>,
      <<"[", "s", "]">>,
      <<"[", "s">>,
      <<"c">>,
      <<" ", "c">>,
      <<";", "c">>,
      <<"a", "=">> \o Rep("b", INI_MAX_LINE) }

\* Lines around the limits MAX_NAME, MAX_SECTION and INI_MAX_LINE.
LongLines ==
    { Rep("k", MAX_NAME - 1) \o <<"=", "v">>,
      Rep("k", MAX_NAME) \o <<"=", "v">>,
      <<"[">> \o Rep("s", MAX_SECTION - 1) \o <<"]">>,
      <<"[">> \o Rep("s", MAX_SECTION + 1) \o <<"]">>,
      <<" ", "c">>,
      <<"c">>,
      <<";", "c">>,
      <<"a", "=">> \o Rep("b", INI_MAX_LINE - 4),
      <<"a", "=">> \o Rep("b", INI_MAX_LINE - 3),
      <<"a", "=">> \o Rep("b", INI_MAX_LINE - 2),
      <<"a", "=">> \o Rep("b", INI_MAX_LINE + 2 * ABYSS_SIZE) }

\* Every text of at most n characters over a small alphabet.
Chars == {"a", ";", " ", "="}

Texts(n) == UNION { [1..k -> Chars] : k \in 0..n }

\* The inputs of at most n lines of the catalogue, each ended by "\n".
Inputs(cat, n) ==
    UNION { { [i \in 1..k |-> f[i] \o <<"\n">>] : f \in [1..k -> cat] }
            : k \in 0..n }

\* The same inputs and, for each, the one whose last line has no "\n".
InputsEof(cat, n) ==
    Inputs(cat, n) \cup
    { [i \in 1..Len(p) |-> IF i = Len(p)
                            THEN SubSeq(p[i], 1, Len(p[i]) - 1) ELSE p[i]]
      : p \in { q \in Inputs(cat, n) : q # <<>> /\ Len(q[Len(q)]) > 1 } }

\* The build options: every combination, with the BOM skip left enabled.
Configs ==
    { [DefaultCfg EXCEPT !.ALLOW_MULTILINE = f[1],
                         !.ALLOW_INLINE_COMMENTS = f[2],
                         !.STOP_ON_FIRST_ERROR = f[3],
                         !.CALL_HANDLER_ON_NEW_SECTION = f[4],
                         !.ALLOW_NO_VALUE = f[5]]
      : f \in [1..5 -> BOOLEAN] }

\* ini_parse_stream starts: lines 111-122, with the whole input unread.
InitWith(c, p) ==
    /\ cfg = c
    /\ phys = p
    /\ stream = Flatten(p)
    /\ line = <<>>
    /\ section = <<>>
    /\ prev_name = <<>>
    /\ lineno = 0
    /\ error = 0
    /\ pc = "read"
    /\ ret = 0
    /\ cur = 0
    /\ calls = <<>>
    /\ hist = <<>>
    /\ errLines = {}
    /\ rejects = 0

\* The default build on short lines.
Init == \E p \in Inputs(Lines, MaxLines) : InitWith(DefaultCfg, p)

Spec == Init /\ [][Next]_vars

\* Every build on short lines and one over-long line.
InitCfg ==
    \E c \in Configs : \E p \in Inputs(CfgLines, MaxLinesCfg) : InitWith(c, p)

SpecCfg == InitCfg /\ [][Next]_vars

\* The default build on lines around the length limits.
InitLong == \E p \in InputsEof(LongLines, MaxLinesLong) : InitWith(DefaultCfg, p)

SpecLong == InitLong /\ [][Next]_vars

\* The default build on one line of any text, alone or after one line.
InitChars ==
    \E t \in Texts(MaxChars) :
      \E q \in {<<>>, << <<"[", "s", "]", "\n">> >>, << <<"a", "=", "b", "\n">> >>} :
        InitWith(DefaultCfg, q \o << t \o <<"\n">> >>)

SpecChars == InitChars /\ [][Next]_vars

(***************************************************************************)
(* Vocabulary of the properties, read off the input and the ghost log.     *)
(***************************************************************************)
SetMin(S) == CHOOSE m \in S : \A x \in S : m <= x
SetMax(S) == CHOOSE m \in S : \A x \in S : m >= x

\* The first line on which an error condition arose, 0 when none did.
FirstErrorLine == IF errLines = {} THEN 0 ELSE SetMin(errLines)

\* The handler calls made for physical line i.
CallsOf(i) == {k \in DOMAIN calls : calls[k].line = i}

\* A physical line without its terminator.
Content(l) ==
    IF l # <<>> /\ l[Len(l)] = "\n" THEN SubSeq(l, 1, Len(l) - 1) ELSE l

\* The text between the first and the last non-whitespace character.
Trimmed(s) ==
    LET ink == {i \in 1..Len(s) : ~isspace(s[i])}
    IN  IF ink = {} THEN <<>> ELSE SubSeq(s, SetMin(ink), SetMax(ink))

\* A physical line that fits the buffer and reads name, separator, value
\* with no bracket, comment character or ';' before the separator.
PlainNameValue(l) ==
    LET t == Trimmed(Content(l))
    IN  /\ Len(l) < INI_MAX_LINE
        /\ t # <<>>
        /\ ~(t[1] \in {";", "#", "[", "EF"})
        /\ \E j \in 1..Len(t) :
             t[j] \in {"=", ":"} /\ \A k \in 1..j : t[k] # ";"

NoLineIs(kinds) == \A i \in DOMAIN hist : ~(hist[i].kind \in kinds)

NumLines(kinds) == Cardinality({i \in DOMAIN hist : hist[i].kind \in kinds})

(***************************************************************************)
(* C1: at every moment the recorded error is the number of the first       *)
(* physical line on which an error condition arose (an over-long line, an  *)
(* unterminated section header, a line with no separator, a handler call   *)
(* that returned 0), or 0 when none did, and that is what ini_parse_stream *)
(* returns; later errors never change it.                                  *)
(***************************************************************************)
C1_FirstErrorReturned ==
    /\ error = FirstErrorLine
    /\ pc = "done" => ret = FirstErrorLine

C1_Witness ==
    /\ pc = "done"
    /\ Cardinality(errLines) >= 2
    /\ ret = SetMin(errLines)
    /\ ret < SetMax(errLines)

(***************************************************************************)
(* C2: without stop-on-first-error an error never ends the parse: at the   *)
(* return every physical line was read and classified and every plain      *)
(* name/value line caused exactly one handler call.  With it, the parse    *)
(* ends on the first erroneous line: nothing after that line is read and   *)
(* no handler call is made for a later line.                               *)
(***************************************************************************)
C2_ErrorsDoNotEndParse ==
    pc = "done" =>
      IF ~cfg.STOP_ON_FIRST_ERROR \/ errLines = {}
      THEN /\ stream = <<>>
           /\ Len(hist) = Len(phys)
           /\ \A i \in DOMAIN phys :
                PlainNameValue(phys[i]) => Cardinality(CallsOf(i)) = 1
      ELSE /\ Len(hist) = FirstErrorLine
           /\ stream = Flatten(SubSeq(phys, FirstErrorLine + 1, Len(phys)))
           /\ \A k \in DOMAIN calls : calls[k].line <= FirstErrorLine

C2_Witness ==
    /\ pc = "done"
    /\ ~cfg.STOP_ON_FIRST_ERROR
    /\ errLines # {}
    /\ \E i \in DOMAIN phys :
         /\ i > FirstErrorLine
         /\ PlainNameValue(phys[i])
         /\ Cardinality(CallsOf(i)) = 1

(***************************************************************************)
(* C6: for a well-formed input with no blank and no comment line the       *)
(* number of handler calls equals the number of physical lines.            *)
(* As stated it fails already in the default build, where a section        *)
(* header causes no call.                                                  *)
(***************************************************************************)
WellFormedNoBlank ==
    /\ pc = "done"
    /\ Len(hist) = Len(phys)
    /\ \A i \in DOMAIN phys : Len(phys[i]) < INI_MAX_LINE
    /\ NoLineIs({"blank", "comment", "badsection", "noseparator"})

C6_Original ==
    /\ cfg = DefaultCfg /\ WellFormedNoBlank => Len(calls) = Len(phys)
    /\ \A i \in DOMAIN phys : Cardinality(CallsOf(i)) <= 1

\* C6 as amended: the calls are one per name/value, name-only and
\* continuation line, and one per section header only when the handler is
\* called on new sections; never more than one call per physical line.
C6_CallsPerLine ==
    /\ WellFormedNoBlank =>
         Len(calls) = Len(phys)
                      - (IF cfg.CALL_HANDLER_ON_NEW_SECTION THEN 0
                         ELSE NumLines({"section"}))
    /\ \A i \in DOMAIN phys : Cardinality(CallsOf(i)) <= 1

C6_Witness ==
    /\ WellFormedNoBlank
    /\ NumLines({"section"}) = 1
    /\ Len(calls) = 1
    /\ Len(phys) = 2

(***************************************************************************)
(* Section headers as the properties read them.                            *)
(***************************************************************************)
\* The text of line i as classified: the buffer without a leading BOM on
\* line 1, trimmed.
Body(i) ==
    LET b == hist[i].buf
        bom == cfg.ALLOW_BOM /\ i = 1 /\ Len(b) >= 3
               /\ SubSeq(b, 1, 3) = <<"EF", "BB", "BF">>
    IN  Trimmed(IF bom THEN SubSeq(b, 4, Len(b)) ELSE b)

IsHeader(i) == hist[i].kind \in {"section", "badsection"}

\* The places of ']' in the text a that follows the opening bracket.
BracketsIn(a) == {j \in 1..Len(a) : a[j] = "]"}

\* The first ']' of a is not behind an inline comment: where inline
\* comments are enabled, no ';' that follows whitespace comes before it.
FoundIn(a) ==
    LET bs == BracketsIn(a)
    IN  /\ bs # {}
        /\ cfg.ALLOW_INLINE_COMMENTS =>
             \A k \in 2..(SetMin(bs) - 1) :
               ~(a[k] \in INI_INLINE_COMMENT_PREFIXES /\ isspace(a[k - 1]))

\* The name before the first ']' of a, cut to MAX_SECTION - 1 characters.
NameIn(a) == SubSeq(a, 1, Min(SetMin(BracketsIn(a)) - 1, MAX_SECTION - 1))

AfterBracket(i) == LET b == Body(i) IN SubSeq(b, 2, Len(b))

HasBracket(i) == BracketsIn(AfterBracket(i)) # {}

BracketFound(i) == FoundIn(AfterBracket(i))

HeaderName(i) == NameIn(AfterBracket(i))

\* The section in force before line n when the headers that count are
\* those satisfying Good.
SectionBefore(n, Good(_)) ==
    LET hs == {i \in 1..(n - 1) : i <= Len(hist) /\ IsHeader(i) /\ Good(i)}
    IN  IF hs = {} THEN <<>> ELSE HeaderName(SetMax(hs))

(***************************************************************************)
(* C3: at every handler call the section is the name, cut to the maximum   *)
(* section length, of the most recent preceding section header line that   *)
(* had a closing bracket, or empty; a header with no closing bracket       *)
(* records an error and leaves the section unchanged.                      *)
(* As stated it fails: a ']' behind an inline comment is not found.        *)
(***************************************************************************)
C3_Original ==
    /\ \A k \in DOMAIN calls :
         calls[k].section = SectionBefore(calls[k].line, HasBracket)
    /\ \A i \in DOMAIN hist :
         IsHeader(i) /\ ~HasBracket(i) =>
           /\ i \in errLines
           /\ SectionBefore(i + 1, HasBracket) = SectionBefore(i, HasBracket)

\* C3 as amended: the headers that count are those whose closing bracket
\* the scan finds, a ']' in the buffered line with no whitespace-preceded
\* ';' before it; every other header records an error and leaves the
\* section unchanged.  A call made for a header itself carries its name.
C3_SectionScoping ==
    /\ \A k \in DOMAIN calls :
         LET i == calls[k].line
         IN  calls[k].section =
               SectionBefore(IF hist[i].kind = "section" THEN i + 1 ELSE i,
                             BracketFound)
    /\ section = SectionBefore(Len(hist) + 1, BracketFound)
    /\ \A i \in DOMAIN hist :
         IsHeader(i) =>
           /\ hist[i].kind = "section" <=> BracketFound(i)
           /\ ~BracketFound(i) => i \in errLines /\ error # 0 /\ error <= i

C3_Witness ==
    /\ Len(hist) = 3
    /\ IsHeader(1) /\ BracketFound(1) /\ Len(AfterBracket(1)) > MAX_SECTION
    /\ IsHeader(2) /\ HasBracket(2) /\ ~BracketFound(2)
    /\ hist[3].kind = "namevalue"
    /\ Len(calls) = 1
    /\ calls[1].section = Rep("t", MAX_SECTION - 1)
    /\ error = 2

(***************************************************************************)
(* C7: a name/value line padded with whitespace before the name, around    *)
(* the separator and after the value yields the same section, name and     *)
(* value as the line without the padding, wherever it occurs.              *)
(* As stated it fails: after a name/value line the padded line is a        *)
(* continuation line.                                                      *)
(***************************************************************************)
Letters == {"a", "b", "c", "k", "v"}

Plain(s) == s # <<>> /\ \A j \in 1..Len(s) : s[j] \in Letters

\* The text t reads name, separator, value, with plain name and value and
\* any whitespace around each; sep is the place of the separator.
PaddedAt(t, sep) ==
    /\ t[sep] \in {"=", ":"}
    /\ Plain(Trimmed(SubSeq(t, 1, sep - 1)))
    /\ Plain(Trimmed(SubSeq(t, sep + 1, Len(t))))

Padded(i) == LET t == Body(i) IN \E sep \in 1..Len(t) : PaddedAt(t, sep)

\* What the unpadded line name=value yields at line i.
UnpaddedCall(i) ==
    LET t == Body(i)
        sep == CHOOSE j \in 1..Len(t) : PaddedAt(t, j)
    IN  [line |-> i,
         section |-> SectionBefore(i, BracketFound),
         name |-> Trimmed(SubSeq(t, 1, sep - 1)),
         value |-> Trimmed(SubSeq(t, sep + 1, Len(t)))]

YieldsUnpadded(i) == \E k \in DOMAIN calls : calls[k] = UnpaddedCall(i)

Indented(i) == hist[i].lead /\ ~(hist[i].kind \in {"blank", "comment"})

NonBlankBefore(i) == {j \in 1..(i - 1) : hist[j].kind # "blank"}

C10_Original ==
    \A i \in DOMAIN hist :
      Indented(i) /\ hist[i].kind = "continuation" =>
        /\ NonBlankBefore(i) # {}
        /\ hist[SetMax(NonBlankBefore(i))].kind \in {"namevalue", "continuation"}

\* A name is remembered at line i: of the earlier lines that are section
\* headers with a found bracket or name/value lines, the last one is a
\* name/value line with a non-empty name.
NameRemembered(i) ==
    LET J == {j \in 1..(i - 1) : hist[j].kind \in {"section", "namevalue"}}
    IN  /\ J # {}
        /\ hist[SetMax(J)].kind = "namevalue"
        /\ ~(Body(SetMax(J))[1] \in {"=", ":"})

\* C10 as amended: a line is a continuation exactly when it is indented,
\* non-empty, not a comment, and a name is remembered; the lines in
\* between that are blank, comments, malformed or continuations do not
\* forget the name.
C10_ContinuationRule ==
    cfg.ALLOW_MULTILINE =>
      \A i \in DOMAIN hist :
        /\ hist[i].kind = "continuation" <=> Indented(i) /\ NameRemembered(i)
        /\ Indented(i) /\ ~NameRemembered(i) =>
             hist[i].kind \in {"section", "badsection", "namevalue",
                               "noseparator", "nameonly"}

C10_Witness ==
    /\ Len(hist) = 3
    /\ hist[1].kind = "namevalue"
    /\ hist[2].kind = "noseparator"
    /\ hist[3].kind = "continuation"

(***************************************************************************)
(* C8: with inline comments enabled the value of a name/value line is the  *)
(* text after the separator up to the first ';' that follows whitespace,  *)
(* trimmed; a ';' that follows anything else stays in the value.           *)
(***************************************************************************)
\* The text of line i after its first separator.
AfterSeparator(i) ==
    LET t == Body(i)
        sep == SetMin({j \in 1..Len(t) : t[j] \in {"=", ":"}})
    IN  SubSeq(t, sep + 1, Len(t))

CommentStarts(r) ==
    {k \in 2..Len(r) : r[k] \in INI_INLINE_COMMENT_PREFIXES /\ isspace(r[k - 1])}

ValueWithoutComment(r) ==
    Trimmed(IF CommentStarts(r) = {} THEN r
            ELSE SubSeq(r, 1, SetMin(CommentStarts(r)) - 1))

C8_InlineComment ==
    \A k \in DOMAIN calls :
      hist[calls[k].line].kind = "namevalue" =>
        calls[k].value = ValueWithoutComment(AfterSeparator(calls[k].line))

C8_Witness ==
    /\ Len(calls) = 1
    /\ hist[calls[1].line].kind = "namevalue"
    /\ Body(calls[1].line) = <<"a", "=", ";", "a", " ", ";">>
    /\ calls[1].value = <<";", "a">>

(***************************************************************************)
(* C9: of a physical line too long for the buffer the part that fits is    *)
(* parsed and the rest, through its terminator, is discarded; its number   *)
(* is recorded as the error unless an earlier one is; the next physical    *)
(* line is parsed from its first character under the next line number.     *)
(* The parse goes on to the end of the input in the build as configured,   *)
(* without stop-on-first-error.                                            *)
(***************************************************************************)
Fitting(l) == SubSeq(l, 1, Min(Len(l), INI_MAX_LINE - 1))

TooLong(l) == Len(l) >= INI_MAX_LINE

C9_OverlongLine ==
    /\ Len(hist) <= Len(phys)
    /\ \A i \in DOMAIN hist :
         /\ hist[i].buf = Fitting(phys[i])
         /\ TooLong(phys[i]) =>
              /\ i \in errLines
              /\ error = FirstErrorLine /\ error <= i
    /\ pc = "classify" =>
         /\ lineno = Len(hist) + 1 /\ cur = lineno
         /\ line = Fitting(phys[lineno])
         /\ stream = Flatten(SubSeq(phys, lineno + 1, Len(phys)))
    /\ pc = "done" /\ ~cfg.STOP_ON_FIRST_ERROR =>
         Len(hist) = Len(phys) /\ lineno = Len(phys)

C9_Witness ==
    /\ pc = "done"
    /\ Len(phys) = 2
    /\ Len(phys[1]) > INI_MAX_LINE + ABYSS_SIZE
    /\ ~TooLong(phys[2])
    /\ hist[2].kind = "namevalue"
    /\ error = 1
    /\ Len(calls) = 2
    /\ calls[2].line = 2 /\ calls[2].name = Rep("k", MAX_NAME - 1)

(***************************************************************************)
(* C4: in continuation mode every call made for a continuation line        *)
(* carries the name of the call made for the name/value line it continues, *)
(* whatever the length of the name, one call per physical line.            *)
(***************************************************************************)
C4_SameName ==
    \A k \in DOMAIN calls :
      hist[calls[k].line].kind = "continuation" =>
        /\ k > 1
        /\ calls[k].name = calls[k - 1].name
        /\ Cardinality(CallsOf(calls[k].line)) = 1

(***************************************************************************)
(* C5: in every handler call the section and the name are at most          *)
(* MAX_SECTION - 1 and MAX_NAME - 1 characters long.                       *)
(***************************************************************************)
C5_NamesBounded ==
    \A k \in DOMAIN calls :
      /\ Len(calls[k].section) <= MAX_SECTION - 1
      /\ calls[k].name # NULL => Len(calls[k].name) <= MAX_NAME - 1
====
